---- MODULE Spec2Model ----
(***************************************************************************)
(* Smart Attendance System: the recognition session of                     *)
(* backend/recognize_attendance.py (roster build, sampling loop,           *)
(* classification, batched attendance log) and the start/stop endpoints    *)
(* of backend/app.py that launch it.                                       *)
(***************************************************************************)
EXTENDS Integers, Sequences, FiniteSets, TLC

(* ------------------------------ bounds --------------------------------- *)
\* frames the camera delivers at most in one session
MaxFrames == 12
\* faces the cascade reports at most on one frame
MaxFaces == 2
\* stop requests the API receives at most
MaxStops == 2
\* recognition processes the API launches at most
MaxStarts == 2

(* ------------------------- program constants --------------------------- *)
RECOGNITION_CONFIDENCE_THRESHOLD == 75
BATCH_WRITE_INTERVAL == 10
ATTENDANCE_COOLDOWN_SECONDS == 5
process_every_n_frames == 2
DISPLAY_TARGET_FPS == 20

ALLOWED_BRANCHES == {"CSE", "AIML", "ECE", "EEE", "MECH", "CIVIL"}
ALLOWED_SECTIONS == {"A", "B"}

CsvHeader == <<"Name", "RollNo", "Branch", "Section", "Date", "Time">>

(* ------------------------------ strings -------------------------------- *)
\* A name is a sequence of characters; str.lower() and str.replace(" ", "_")
\* work character by character.
LowerChar(ch) ==
    CASE ch = "A" -> "a"
      [] ch = "E" -> "e"
      [] ch = "U" -> "u"
      [] OTHER -> ch

Lower(s) == [i \in 1..Len(s) |-> LowerChar(s[i])]

ReplaceSpace(s) == [i \in 1..Len(s) |-> IF s[i] = " " THEN "_" ELSE s[i]]

\* sys.argv[n].upper() on the argument strings the model passes
Upper(s) ==
    CASE s = "cse" -> "CSE"
      [] s = "a" -> "A"
      [] s = "b" -> "B"
      [] s = "unknown" -> "UNKNOWN"
      [] OTHER -> s

\* ordinal of a character (Python compares strings by code point)
Ord(ch) ==
    CASE ch = " " -> 32
      [] ch = "0" -> 48
      [] ch = "1" -> 49
      [] ch = "2" -> 50
      [] ch = "3" -> 51
      [] ch = "4" -> 52
      [] ch = "A" -> 65
      [] ch = "B" -> 66
      [] ch = "C" -> 67
      [] ch = "E" -> 69
      [] ch = "S" -> 83
      [] ch = "U" -> 85
      [] ch = "_" -> 95
      [] ch = "a" -> 97
      [] ch = "b" -> 98
      [] ch = "c" -> 99
      [] ch = "e" -> 101
      [] ch = "s" -> 115
      [] ch = "k" -> 107
      [] ch = "n" -> 110
      [] ch = "o" -> 111
      [] ch = "w" -> 119
      [] OTHER -> 0

RECURSIVE StrLess(_, _)
StrLess(s, t) ==
    IF t = <<>> THEN FALSE
    ELSE IF s = <<>> THEN TRUE
    ELSE IF Ord(Head(s)) # Ord(Head(t)) THEN Ord(Head(s)) < Ord(Head(t))
    ELSE StrLess(Tail(s), Tail(t))

(* ---------------------------- the inputs ------------------------------- *)
NameAb == <<"A", " ", "b">>
Name_ab == <<"a", " ", "b">>
NameE == <<"E">>
UnknownName == <<"U", "n", "k", "n", "o", "w", "n">>

\* the folders the dataset directory may hold
FolderNames == {NameAb, Name_ab, NameE}

Today == "2024-01-01"

\* student_database.json, in key order: [sid, info]
FullDb ==
    << [sid |-> <<"x">>,
        info |-> [name |-> <<"e">>, rollNo |-> "CSEB001",
                  branch |-> "CSE", section |-> "B"]],
       [sid |-> <<"a", "_", "b", "_", "1">>,
        info |-> [name |-> <<"a", " ", "b">>, rollNo |-> "CSEB002",
                  branch |-> "CSE", section |-> "B"]],
       [sid |-> <<"a", "_", "b">>,
        info |-> [name |-> <<"A", " ", "b">>, rollNo |-> "CSEA001",
                  branch |-> "CSE", section |-> "A"]] >>

Databases == {FullDb, Tail(FullDb)}

\* os.listdir(dataset): any folders in any order, no name twice
Listings ==
    {l \in UNION {[1..n -> FolderNames] : n \in 0..Cardinality(FolderNames)} :
        \A i, j \in DOMAIN l : i # j => l[i] # l[j]}

ArgPairs == {<<"cse", "a">>, <<"CSE", "B">>, <<"unknown", "UNKNOWN">>}

\* what recognizer.predict can return: a label and a distance
Labels == 0..Cardinality(FolderNames)
Confidences == {RECOGNITION_CONFIDENCE_THRESHOLD - 1,
                RECOGNITION_CONFIDENCE_THRESHOLD,
                RECOGNITION_CONFIDENCE_THRESHOLD + 1}

OldRow == <<NameAb, "CSEA001", "CSE", "A", Today, 0>>

NoFile == [exists |-> FALSE, header |-> <<>>, rows |-> <<>>]
OldFile == [exists |-> TRUE, header |-> CsvHeader, rows |-> <<OldRow>>]

NoResult == [name |-> <<>>, roll_no |-> "", status |-> "none", marked |-> FALSE]
\* recognizer.predict on one face: it raises, or gives a label and a distance
NoDetection == [ok |-> FALSE, label |-> -1, confidence |-> -1]
Detections ==
    {NoDetection} \cup
    {[ok |-> TRUE, label |-> l, confidence |-> c] : l \in Labels, c \in Confidences}
NoSummary == [class |-> <<>>, present |-> 0, students |-> <<>>]

\* no request for today's attendance answered yet
NoResponse == [status |-> 0, class |-> <<"", "">>, date |-> "", total |-> 0,
               present |-> 0, absent |-> 0, percentage |-> 0, records |-> <<>>]

StopResponse == [success |-> TRUE,
                 message |-> "Attendance stopped. Please close the camera window."]

VARIABLES
    student_db,          \* student_database.json
    dataset,             \* the dataset directory listing
    trainerExists,       \* trainer/trainer.yml exists
    trainerReadable,     \* recognizer.read accepts the file
    cascadeOK,           \* the Haar cascade loads
    attendance_csv,      \* attendance.csv
    frame_ms,            \* milliseconds one pass of the loop takes
    io_fault,            \* how appending to attendance.csv fails: "none", "open", "row"
    pc,                  \* position of the recognition script
    branch, section,     \* its class context
    label_map, name_to_info,
    marked_names, recognition_cooldown, attendance_queue,
    frame_count,
    facesLeft,           \* faces of the current frame not yet classified
    detection,           \* what recognizer.predict gave for the face classified last
    result,              \* the result dict of the face classified last
    summary,             \* the session summary printed at the end
    exitReason,          \* why the loop ended
    processed,           \* history: frames on which detection ran
    accepted,            \* history: names accepted for the session's class
    enqueued,            \* history: every row appended to attendance_queue
    queuedSince,         \* history: the frame at which attendance_queue last became non-empty
    opens,               \* history: times attendance.csv was opened for append
    logStart,            \* history: rows of attendance.csv when the session began
    attendance_running,  \* app.py's global flag
    stopResponses,       \* history: the responses of the stop requests
    spawned,             \* history: recognition processes the API launched
    ticksAfterStop,      \* history: frames sampled since a stop was requested of the
                         \* running script (-1: none requested), counted up to 2
    today_response       \* the last response of GET /api/attendance/today

vars == <<student_db, dataset, trainerExists, trainerReadable, cascadeOK, frame_ms,
          attendance_csv, io_fault, pc, branch,
          section, label_map, name_to_info, marked_names, recognition_cooldown,
          attendance_queue, frame_count, facesLeft, detection, result, summary,
          exitReason,
          processed, accepted, enqueued, queuedSince, opens, logStart,
          attendance_running,
          stopResponses, spawned, ticksAfterStop, today_response>>

envVars == <<student_db, dataset, trainerExists, trainerReadable, cascadeOK, frame_ms,
             io_fault>>
apiVars == <<attendance_running, stopResponses, spawned, ticksAfterStop>>
histVars == <<processed, accepted, enqueued, queuedSince, opens, logStart>>
sessVars == <<marked_names, recognition_cooldown, attendance_queue>>
rosterVars == <<branch, section, label_map, name_to_info>>
faceVars == <<detection, result>>

(* ------------------------------ roster --------------------------------- *)
Placeholder == [rollNo |-> "N/A", branch |-> "UNKNOWN", section |-> "UNKNOWN"]

EmptyDict == <<>>

\* dict.get(key, default)
DictGet(d, key, default) == IF key \in DOMAIN d THEN d[key] ELSE default

Range(f) == {f[i] : i \in DOMAIN f}

SetMin(S) == CHOOSE m \in S : \A k \in S : m <= k

\* lines 102-119: the record bound to one dataset folder
student_id_of(person_name) == ReplaceSpace(Lower(person_name))

\* mutant of ResolveInfo: the name is searched before the key is tried
ResolveInfo_name_first(person_name, db) ==
    LET byKey == {i \in DOMAIN db : db[i].sid = student_id_of(person_name)}
        byName == {i \in DOMAIN db : Lower(db[i].info.name) = Lower(person_name)}
    IN  IF byName # {} THEN db[SetMin(byName)].info
        ELSE IF byKey # {} THEN db[SetMin(byKey)].info
        ELSE Placeholder

ResolveInfo(person_name, db) ==
    LET byKey == {i \in DOMAIN db : db[i].sid = student_id_of(person_name)}
        byName == {i \in DOMAIN db : Lower(db[i].info.name) = Lower(person_name)}
    IN  IF byKey # {} THEN db[SetMin(byKey)].info
        ELSE IF byName # {} THEN db[SetMin(byName)].info
        ELSE Placeholder

\* lines 96-121: label_map numbers the folders in listing order
BuildLabelMap(listing) == [i \in 0..(Len(listing) - 1) |-> listing[i + 1]]

BuildNameToInfo(listing, db) == [n \in Range(listing) |-> ResolveInfo(n, db)]

\* lines 126-129
class_students ==
    {n \in DOMAIN name_to_info :
        /\ DictGet(name_to_info[n], "branch", "None") = branch
        /\ DictGet(name_to_info[n], "section", "None") = section}

(* ------------------------------- Init ---------------------------------- *)
\* the frame period the FPS control aims at, and that of a camera giving one
\* frame a second
FullSpeedMs == 1000 \div DISPLAY_TARGET_FPS
SlowFrameMs == 1000

Init ==
    /\ student_db \in Databases
    /\ dataset \in Listings
    /\ trainerExists \in BOOLEAN
    /\ trainerReadable \in BOOLEAN
    /\ cascadeOK \in BOOLEAN
    /\ attendance_csv \in {NoFile, OldFile}
    /\ frame_ms = FullSpeedMs
    /\ io_fault = "none"
    /\ pc = "idle"
    /\ branch = ""
    /\ section = ""
    /\ label_map = EmptyDict
    /\ name_to_info = EmptyDict
    /\ marked_names = {}
    /\ recognition_cooldown = EmptyDict
    /\ attendance_queue = <<>>
    /\ frame_count = 0
    /\ facesLeft = 0
    /\ detection = NoDetection
    /\ result = NoResult
    /\ summary = NoSummary
    /\ exitReason = "none"
    /\ processed = {}
    /\ accepted = {}
    /\ enqueued = <<>>
    /\ queuedSince = 0
    /\ opens = 0
    /\ logStart = Len(attendance_csv.rows)
    /\ attendance_running = FALSE
    /\ stopResponses = <<>>
    /\ spawned = 0
    /\ ticksAfterStop = -1
    /\ today_response = NoResponse

(* ------------------------ starting the script -------------------------- *)
\* python recognize_attendance.py <BRANCH> <SECTION>, lines 46-53
RunScript(argv) ==
    /\ UNCHANGED <<today_response, envVars, attendance_csv, label_map, name_to_info, sessVars,
                   frame_count, facesLeft, faceVars, summary, histVars>>
    /\ IF Len(argv) < 3
       THEN /\ pc' = "exit"
            /\ exitReason' = "usage"
            /\ UNCHANGED <<branch, section>>
       ELSE /\ pc' = "start"
            /\ branch' = Upper(argv[2])
            /\ section' = Upper(argv[3])
            /\ UNCHANGED exitReason

\* an operator starts the script from a shell
Launch ==
    /\ pc = "idle"
    /\ \E a \in ArgPairs, argc \in {1, 3} :
          RunScript(SubSeq(<<"recognize_attendance.py", a[1], a[2]>>, 1, argc))
    /\ UNCHANGED apiVars

\* mutant of init_attendance_file: the file is opened for writing every time
init_attendance_file_always(file) ==
    [exists |-> TRUE, header |-> CsvHeader, rows |-> <<>>]

\* lines 137-142: attendance.csv is created with its header if it is missing
init_attendance_file(file) ==
    IF file.exists THEN file
    ELSE [exists |-> TRUE, header |-> CsvHeader, rows |-> <<>>]

\* mutant of engine_ready: the cascade is not tested for emptiness
engine_ready_cascade_untested == trainerExists /\ trainerReadable

\* lines 62-85: trainer.yml exists, recognizer.read accepts it, the cascade loads
engine_ready == trainerExists /\ trainerReadable /\ cascadeOK

\* lines 58-177: everything before the loop
Startup ==
    /\ pc = "start"
    /\ \E datasetExists, camOK \in BOOLEAN :
          IF ~engine_ready
          THEN /\ pc' = "exit"
               /\ exitReason' = "engine"
               /\ UNCHANGED <<attendance_csv, label_map, name_to_info, logStart>>
          ELSE IF ~datasetExists
          THEN /\ pc' = "exit"
               /\ exitReason' = "config"
               /\ UNCHANGED <<attendance_csv, label_map, name_to_info, logStart>>
          ELSE /\ label_map' = BuildLabelMap(dataset)
               /\ name_to_info' = BuildNameToInfo(dataset, student_db)
               /\ attendance_csv' = init_attendance_file(attendance_csv)
               /\ logStart' = Len(attendance_csv.rows)
               /\ IF camOK
                  THEN pc' = "read" /\ UNCHANGED exitReason
                  ELSE pc' = "exit" /\ exitReason' = "camera_open"
    /\ marked_names' = {}
    /\ recognition_cooldown' = EmptyDict
    /\ attendance_queue' = <<>>
    /\ frame_count' = 0
    /\ UNCHANGED <<today_response, envVars, branch, section, facesLeft, faceVars, summary,
                   processed, accepted, enqueued, queuedSince, opens, apiVars>>

(* --------------------------- the attendance log ------------------------ *)
RECURSIVE Reverse(_)
Reverse(q) == IF q = <<>> THEN <<>> ELSE Append(Reverse(Tail(q)), Head(q))

\* mutant of batch_write_attendance: queue.pop() for queue.popleft()
batch_write_lifo(queue, file, fault) ==
    IF queue = <<>>
    THEN [queue |-> queue, file |-> file, opened |-> 0]
    ELSE [queue |-> <<>>,
          file |-> [file EXCEPT !.exists = TRUE, !.rows = @ \o Reverse(queue)],
          opened |-> 1]

\* mutant of batch_write_attendance: the rows are written and stay queued
batch_write_keep_queue(queue, file, fault) ==
    IF queue = <<>>
    THEN [queue |-> queue, file |-> file, opened |-> 0]
    ELSE [queue |-> queue,
          file |-> [file EXCEPT !.exists = TRUE, !.rows = @ \o queue],
          opened |-> 1]

\* mutant of batch_write_attendance: the early return on an empty queue is gone
batch_write_unguarded(queue, file, fault) ==
    [queue |-> <<>>,
     file |-> [file EXCEPT !.exists = TRUE, !.rows = @ \o queue],
     opened |-> 1]

\* batch_write_attendance(queue, filename), lines 28-39: what it leaves of the
\* queue and the file, and whether it opened the file
batch_write_attendance(queue, file, fault) ==
    IF queue = <<>>
    THEN [queue |-> queue, file |-> file, opened |-> 0]
    ELSE CASE fault = "open" ->
                \* open() raises: nothing is popped
                [queue |-> queue, file |-> file, opened |-> 0]
           [] fault = "row" ->
                \* the first writerow raises after popleft took its row
                [queue |-> Tail(queue), file |-> file, opened |-> 1]
           [] fault = "close" ->
                \* every row went into the file object's buffer, which the
                \* close at the end of the with block cannot write out
                [queue |-> <<>>, file |-> file, opened |-> 1]
           [] OTHER ->
                [queue |-> <<>>,
                 file |-> [file EXCEPT !.exists = TRUE, !.rows = @ \o queue],
                 opened |-> 1]

(* ------------------------------ the loop ------------------------------- *)
\* lines 175-177, 198, 255-257, 315-319: the loop shows DISPLAY_TARGET_FPS frames
\* a second at most, one every frame_ms milliseconds; datetime.now() in whole
\* seconds since the loop began
now(n) == (n * frame_ms) \div 1000

\* mutant of should_process: the first frame of each group is sampled
should_process_first(n) == n % process_every_n_frames = 1

\* line 201
should_process(n) == n % process_every_n_frames = 0

\* mutant of accepts: the bound taken inclusively
accepts_inclusive(confidence) == confidence <= RECOGNITION_CONFIDENCE_THRESHOLD

\* line 232
accepts(confidence) == confidence < RECOGNITION_CONFIDENCE_THRESHOLD

\* mutant of in_class: the section is not compared
in_class_branch_only(student_branch, student_section) == student_branch = branch

\* line 243
in_class(student_branch, student_section) ==
    student_branch = branch /\ student_section = section

\* lines 253-257: the seconds since the name was marked, 999 without a mark
time_since_last_mark(name) ==
    IF name \in DOMAIN recognition_cooldown
    THEN now(frame_count) - recognition_cooldown[name]
    ELSE 999

\* mutant of not_marked: a name is marked again once the cooldown is over
not_marked_or_cooled(name) ==
    \/ name \notin marked_names
    \/ time_since_last_mark(name) >= ATTENDANCE_COOLDOWN_SECONDS

\* mutant of not_marked: only the pending queue is consulted
not_marked_in_queue(name) ==
    \A i \in DOMAIN attendance_queue : attendance_queue[i][1] # name

\* line 254
not_marked(name) == name \notin marked_names

\* mutant of ReadFrame: a failed read is skipped and the next one is tried
ReadFrame_retry ==
    /\ pc = "read"
    /\ \E ret \in BOOLEAN :
          IF ~ret
          THEN /\ pc' = "read"
               /\ exitReason' = "camera_read"
               /\ UNCHANGED frame_count
          ELSE /\ frame_count < MaxFrames
               /\ frame_count' = frame_count + 1
               /\ pc' = "detect"
               /\ UNCHANGED exitReason
    /\ UNCHANGED <<today_response, envVars, attendance_csv, rosterVars, sessVars, facesLeft, faceVars,
                   summary, histVars, apiVars>>

\* lines 188-193: cam.read()
ReadFrame ==
    /\ pc = "read"
    /\ \E ret \in BOOLEAN :
          IF ~ret
          THEN /\ pc' = "finally"
               /\ exitReason' = "camera_read"
               /\ UNCHANGED frame_count
          ELSE /\ frame_count < MaxFrames
               /\ frame_count' = frame_count + 1
               /\ pc' = "detect"
               /\ UNCHANGED exitReason
    /\ UNCHANGED <<today_response, envVars, attendance_csv, rosterVars, sessVars, facesLeft, faceVars,
                   summary, histVars, apiVars>>

\* lines 201-213: detectMultiScale on every Nth frame
DetectFaces ==
    /\ pc = "detect"
    /\ IF should_process(frame_count)
       THEN \E n \in 0..MaxFaces :
               /\ facesLeft' = n
               /\ processed' = processed \cup {frame_count}
               /\ result' = NoResult
               /\ detection' = NoDetection
               /\ pc' = IF n = 0 THEN "show" ELSE "faces"
               /\ ticksAfterStop' = IF ticksAfterStop \in {0, 1}
                                     THEN ticksAfterStop + 1
                                     ELSE ticksAfterStop
       ELSE /\ pc' = "show"
            /\ UNCHANGED <<facesLeft, processed, faceVars, ticksAfterStop>>
    /\ UNCHANGED <<today_response, envVars, attendance_csv, rosterVars, sessVars, frame_count,
                   summary, exitReason, accepted, enqueued, queuedSince, opens, logStart,
                   attendance_running, stopResponses, spawned>>

\* mutant of lookup: the defaults of the .get calls left empty
lookup_blank_defaults(label) ==
    LET name == DictGet(label_map, label, UnknownName)
        student_info == DictGet(name_to_info, name, EmptyDict)
    IN  [name |-> name,
         roll_no |-> DictGet(student_info, "rollNo", ""),
         student_branch |-> DictGet(student_info, "branch", ""),
         student_section |-> DictGet(student_info, "section", "")]

\* lines 233-237: the name and the record a predicted label resolves to
lookup(label) ==
    LET name == DictGet(label_map, label, UnknownName)
        student_info == DictGet(name_to_info, name, EmptyDict)
    IN  [name |-> name,
         roll_no |-> DictGet(student_info, "rollNo", "N/A"),
         student_branch |-> DictGet(student_info, "branch", "UNKNOWN"),
         student_section |-> DictGet(student_info, "section", "UNKNOWN")]

\* mutant of on_predict_error: the except clause leaves the loop over the faces
on_predict_error_break(left) == "show"

\* lines 220-221: except: continue, on to the next face of the frame if any
on_predict_error(left) == IF left = 1 THEN "show" ELSE "faces"

\* lines 215-273: one face of the frame
ClassifyFace ==
    /\ pc = "faces"
    /\ facesLeft > 0
    /\ facesLeft' = facesLeft - 1
    /\ \E d \in Detections :
          LET predictOK == d.ok
              label == d.label
              confidence == d.confidence
          IN
          /\ detection' = d
          /\ pc' = IF ~predictOK THEN on_predict_error(facesLeft)
                    ELSE IF facesLeft = 1 THEN "show" ELSE "faces"
          /\ IF ~predictOK
             THEN UNCHANGED <<sessVars, result, enqueued>>
             ELSE IF ~accepts(confidence)
             THEN /\ result' = [name |-> UnknownName, roll_no |-> "",
                                status |-> "unknown", marked |-> FALSE]
                  /\ UNCHANGED <<sessVars, enqueued>>
             ELSE LET r == lookup(label)
                      row == <<r.name, r.roll_no, branch, section, Today, now(frame_count)>>
                  IN  IF in_class(r.student_branch, r.student_section)
                      THEN /\ result' = [name |-> r.name, roll_no |-> r.roll_no,
                                         status |-> "correct_class", marked |-> TRUE]
                           /\ IF not_marked(r.name)
                              THEN /\ attendance_queue' = Append(attendance_queue, row)
                                   /\ marked_names' = marked_names \cup {r.name}
                                   /\ recognition_cooldown' =
                                         [n \in DOMAIN recognition_cooldown \cup {r.name} |->
                                             IF n = r.name THEN now(frame_count)
                                             ELSE recognition_cooldown[n]]
                                   /\ enqueued' = Append(enqueued, row)
                              ELSE UNCHANGED <<sessVars, enqueued>>
                      ELSE /\ result' = [name |-> r.name, roll_no |-> r.roll_no,
                                         status |-> "wrong_class", marked |-> FALSE]
                           /\ UNCHANGED <<sessVars, enqueued>>
          /\ queuedSince' = IF attendance_queue = <<>> /\ attendance_queue' # <<>>
                            THEN frame_count
                            ELSE queuedSince
          \* history: the names seen with a trusted distance and a record of the class
          /\ accepted' =
                IF /\ predictOK
                   /\ confidence < RECOGNITION_CONFIDENCE_THRESHOLD
                   /\ label \in DOMAIN label_map
                   /\ name_to_info[label_map[label]].branch = branch
                   /\ name_to_info[label_map[label]].section = section
                THEN accepted \cup {label_map[label]}
                ELSE IF /\ predictOK
                        /\ confidence < RECOGNITION_CONFIDENCE_THRESHOLD
                        /\ label \notin DOMAIN label_map
                        /\ branch = "UNKNOWN"
                        /\ section = "UNKNOWN"
                THEN accepted \cup {UnknownName}
                ELSE accepted
    /\ UNCHANGED <<today_response, envVars, attendance_csv, rosterVars, frame_count, summary,
                   exitReason, processed, opens, logStart, apiVars>>

\* lines 275-324: draw, show, waitKey
ShowFrame ==
    /\ pc = "show"
    /\ \E key \in {"q", "Q", "none"} :
          IF key \in {"q", "Q"}
          THEN pc' = "finally" /\ exitReason' = "quit"
          ELSE pc' = "flush" /\ UNCHANGED exitReason
    /\ result' = NoResult
    /\ detection' = NoDetection
    /\ UNCHANGED <<today_response, envVars, attendance_csv, rosterVars, sessVars, frame_count,
                   facesLeft, summary, histVars, apiVars>>

\* mutant of flush_due: the interval is counted in sampled frames
flush_due_in_sampled_frames(n) ==
    n % (BATCH_WRITE_INTERVAL * process_every_n_frames) = 0

\* line 327: the frames after which the queue is written
flush_due(n) == n % BATCH_WRITE_INTERVAL = 0

\* lines 326-328
PeriodicFlush ==
    /\ pc = "flush"
    /\ pc' = "read"
    /\ IF flush_due(frame_count) /\ attendance_queue # <<>>
       THEN LET w == batch_write_attendance(attendance_queue, attendance_csv, io_fault)
            IN  /\ attendance_queue' = w.queue
                /\ attendance_csv' = w.file
                /\ opens' = opens + w.opened
       ELSE UNCHANGED <<attendance_queue, attendance_csv, opens>>
    /\ queuedSince' = IF attendance_queue' = <<>> THEN 0 ELSE queuedSince
    /\ UNCHANGED <<today_response, envVars, rosterVars, marked_names, recognition_cooldown,
                   frame_count, facesLeft, faceVars, summary, exitReason, processed,
                   accepted, enqueued, logStart, apiVars>>

\* mutant of Interrupt: the exception leaves the script, no finally block runs
Interrupt_unhandled ==
    /\ pc \in {"read", "detect", "faces", "show", "flush"}
    /\ pc' = "exit"
    /\ exitReason' = "interrupt"
    /\ facesLeft' = 0
    /\ result' = NoResult
    /\ detection' = NoDetection
    /\ UNCHANGED <<today_response, envVars, attendance_csv, rosterVars, sessVars, frame_count,
                   summary, histVars, apiVars>>

\* lines 330-335: KeyboardInterrupt or any exception inside the try
Interrupt ==
    /\ pc \in {"read", "detect", "faces", "show", "flush"}
    /\ pc' = "finally"
    /\ exitReason' = "interrupt"
    /\ facesLeft' = 0
    /\ result' = NoResult
    /\ detection' = NoDetection
    /\ UNCHANGED <<today_response, envVars, attendance_csv, rosterVars, sessVars, frame_count,
                   summary, histVars, apiVars>>

\* sorted(marked_names)
RECURSIVE SortedNames(_)
SortedNames(S) ==
    IF S = {} THEN <<>>
    ELSE LET m == CHOOSE x \in S : \A y \in S \ {x} : StrLess(x, y)
         IN  <<m>> \o SortedNames(S \ {m})

\* train_model.py lines 37-69: training numbers the folders in sorted order
train_label_map(listing) ==
    LET names == SortedNames(Range(listing))
    IN  [i \in 0..(Len(names) - 1) |-> names[i + 1]]

\* mutant of SessionSummary: the class roster is counted, not the marked set
summary_of_class ==
    LET names == SortedNames(marked_names)
    IN  [class |-> <<branch, section>>,
         present |-> Cardinality(class_students),
         students |-> [i \in 1..Len(names) |->
                          <<names[i],
                            DictGet(DictGet(name_to_info, names[i], EmptyDict),
                                    "rollNo", "N/A")>>]]

\* mutant of SessionSummary: the rows this session wrote to attendance.csv are
\* reported, not the marked set
summary_from_log ==
    LET rows == SubSeq(attendance_csv.rows, logStart + 1, Len(attendance_csv.rows))
    IN  [class |-> <<branch, section>>,
         present |-> Len(rows),
         students |-> [i \in 1..Len(rows) |-> <<rows[i][1], rows[i][2]>>]]

\* lines 345-362
SessionSummary ==
    LET names == SortedNames(marked_names)
    IN  [class |-> <<branch, section>>,
         present |-> Cardinality(marked_names),
         students |-> [i \in 1..Len(names) |->
                          <<names[i],
                            DictGet(DictGet(name_to_info, names[i], EmptyDict),
                                    "rollNo", "N/A")>>]]

\* lines 336-362: the finally block, then the summary
FinalFlush ==
    /\ pc = "finally"
    /\ pc' = "done"
    /\ IF attendance_queue # <<>>
       THEN LET w == batch_write_attendance(attendance_queue, attendance_csv, io_fault)
            IN  /\ attendance_queue' = w.queue
                /\ attendance_csv' = w.file
                /\ opens' = opens + w.opened
       ELSE UNCHANGED <<attendance_queue, attendance_csv, opens>>
    /\ queuedSince' = IF attendance_queue' = <<>> THEN 0 ELSE queuedSince
    /\ summary' = SessionSummary
    /\ UNCHANGED <<today_response, envVars, rosterVars, marked_names, recognition_cooldown,
                   frame_count, facesLeft, faceVars, exitReason, processed,
                   accepted, enqueued, logStart, apiVars>>

(* ----------------------------- the script ------------------------------ *)
Session ==
    \/ Startup
    \/ ReadFrame
    \/ DetectFaces
    \/ ClassifyFace
    \/ ShowFrame
    \/ PeriodicFlush
    \/ Interrupt
    \/ FinalFlush

Next ==
    \/ Launch
    \/ Session

Spec == Init /\ [][Next]_vars

(* ------------------------------ the API -------------------------------- *)
\* no script runs and no request was made
ScriptIdle ==
    /\ io_fault = "none"
    /\ pc = "idle"
    /\ branch = ""
    /\ section = ""
    /\ label_map = EmptyDict
    /\ name_to_info = EmptyDict
    /\ marked_names = {}
    /\ recognition_cooldown = EmptyDict
    /\ attendance_queue = <<>>
    /\ frame_count = 0
    /\ facesLeft = 0
    /\ detection = NoDetection
    /\ result = NoResult
    /\ summary = NoSummary
    /\ exitReason = "none"
    /\ processed = {}
    /\ accepted = {}
    /\ enqueued = <<>>
    /\ queuedSince = 0
    /\ opens = 0
    /\ logStart = 0
    /\ attendance_running = FALSE
    /\ stopResponses = <<>>
    /\ spawned = 0
    /\ ticksAfterStop = -1
    /\ today_response = NoResponse

\* what the start request may carry as branch and section
ApiArgPairs == {<<"cse", "a">>, <<"CSE", "B">>, <<"AIML", "A">>,
                <<"", "A">>, <<"CSE", "C">>}

\* Config.validate_branch_section, config.py lines 104-113
validate_branch_section(b, s) == b \in ALLOWED_BRANCHES /\ s \in ALLOWED_SECTIONS

\* AttendanceValidator.validate_class_selection, validators.py lines 241-251
validate_class_selection(b, s) ==
    /\ b # ""
    /\ s # ""
    /\ validate_branch_section(b, s)

\* AttendanceValidator.check_students_registered, validators.py lines 253-269
check_students_registered(b, s) ==
    Cardinality({i \in DOMAIN student_db :
                    /\ student_db[i].info.branch = b
                    /\ student_db[i].info.section = s})

\* POST /api/attendance/start, app.py lines 285-367
start_attendance ==
    /\ spawned < MaxStarts
    /\ \E a \in ApiArgPairs :
          LET b == Upper(a[1])
              s == Upper(a[2])
          IN  IF /\ validate_class_selection(b, s)
                 /\ check_students_registered(b, s) > 0
                 /\ ~attendance_running
                 /\ trainerExists
              THEN /\ attendance_running' = TRUE
                   /\ spawned' = spawned + 1
                   /\ UNCHANGED <<stopResponses, ticksAfterStop>>
                   /\ IF pc = "idle"
                      THEN RunScript(<<"recognize_attendance.py", b, s>>)
                      ELSE \* a further process next to the one modelled
                           UNCHANGED <<today_response, envVars, attendance_csv, pc, rosterVars,
                                       sessVars, frame_count, facesLeft, faceVars,
                                       summary, exitReason, histVars>>
              ELSE UNCHANGED vars

\* mutant of stop_response: a stop without a running session is refused
stop_response_strict(running) ==
    IF running THEN StopResponse
    ELSE [success |-> FALSE, message |-> "Attendance system is not running."]

\* the response of the stop request, app.py lines 380-383
stop_response(running) == StopResponse

\* POST /api/attendance/stop, app.py lines 370-390
stop_attendance ==
    /\ Len(stopResponses) < MaxStops
    /\ attendance_running' = FALSE
    /\ stopResponses' = Append(stopResponses, stop_response(attendance_running))
    /\ ticksAfterStop' =
          IF pc \in {"read", "detect", "faces", "show", "flush"} /\ ticksAfterStop = -1
          THEN 0
          ELSE ticksAfterStop
    /\ UNCHANGED <<today_response, envVars, attendance_csv, pc, rosterVars, sessVars, frame_count,
                   facesLeft, faceVars, summary, exitReason, histVars, spawned>>

NextApi ==
    \/ start_attendance
    \/ stop_attendance
    \/ Session

\* the deployment the API is exercised on: the full student database, every
\* dataset folder present and listed in name order, no attendance.csv yet
InitApi ==
    /\ Init
    /\ student_db = FullDb
    /\ dataset = SortedNames(FolderNames)
    /\ attendance_csv = NoFile

SpecApi == InitApi /\ [][NextApi]_vars

(* ----------------------- today's attendance, read ----------------------- *)
MaxRows == 3

Yesterday == "2023-12-31"
PaddedRoll == "CSEB001 "

\* str.strip on the fields the log can hold: one of them is padded
StripField(f) == IF f = PaddedRoll THEN "CSEB001" ELSE f

\* rows the log can hold: the same student marked by two sessions of the day,
\* once with a padded roll number, another student of the class, a row of the
\* day before and a row of another class
TodayRows ==
    { <<NameE, "CSEB001", "CSE", "B", Today, 0>>,
      <<NameE, "CSEB001", "CSE", "B", Today, 1>>,
      <<NameE, PaddedRoll, "CSE", "B", Today, 2>>,
      <<Name_ab, "CSEB002", "CSE", "B", Today, 0>>,
      <<NameE, "CSEB001", "CSE", "B", Yesterday, 0>>,
      OldRow }

TodayLogs ==
    {NoFile} \cup
    {[exists |-> TRUE, header |-> CsvHeader, rows |-> r] :
        r \in UNION {[1..n -> TodayRows] : n \in 0..MaxRows}}

\* count_students_in_class, app.py lines 37-44
count_students_in_class(b, s) ==
    Cardinality({i \in DOMAIN student_db :
                    /\ student_db[i].info.branch = b
                    /\ student_db[i].info.section = s})

\* app.py line 178, in hundredths of a percent as round(percentage, 2) gives
percentage_of(present_count, total_students) ==
    IF total_students > 0
    THEN (2 * 10000 * present_count + total_students) \div (2 * total_students)
    ELSE 0

\* mutant of read_rows: every matching row is counted
RECURSIVE read_rows_every_row(_, _, _, _, _)
read_rows_every_row(rows, b, s, present_students, records) ==
    IF rows = <<>> THEN [present_students |-> present_students, records |-> records]
    ELSE LET row == Head(rows)
             roll_no == StripField(row[2])
         IN  IF /\ StripField(row[5]) = Today
                /\ StripField(row[3]) = b
                /\ StripField(row[4]) = s
             THEN read_rows_every_row(Tail(rows), b, s,
                            present_students \cup {<<roll_no, row[6]>>},
                            Append(records, [name |-> row[1], rollNo |-> roll_no,
                                             date |-> row[5], time |-> row[6]]))
             ELSE read_rows_every_row(Tail(rows), b, s, present_students, records)

\* app.py lines 151-174: the loop over the rows of the log
RECURSIVE read_rows(_, _, _, _, _)
read_rows(rows, b, s, present_students, records) ==
    IF rows = <<>> THEN [present_students |-> present_students, records |-> records]
    ELSE LET row == Head(rows)
             roll_no == StripField(row[2])
         IN  IF /\ StripField(row[5]) = Today
                /\ StripField(row[3]) = b
                /\ StripField(row[4]) = s
                /\ roll_no \notin present_students
             THEN read_rows(Tail(rows), b, s, present_students \cup {roll_no},
                            Append(records, [name |-> row[1], rollNo |-> roll_no,
                                             date |-> row[5], time |-> row[6]]))
             ELSE read_rows(Tail(rows), b, s, present_students, records)

\* GET /api/attendance/today, app.py lines 113-205
get_today_attendance ==
    /\ \E a \in ApiArgPairs, readable \in BOOLEAN :
          LET b == Upper(a[1])
              s == Upper(a[2])
              total_students == count_students_in_class(b, s)
              read == IF attendance_csv.exists
                      THEN read_rows(attendance_csv.rows, b, s, {}, <<>>)
                      ELSE [present_students |-> {}, records |-> <<>>]
              present_count == Cardinality(read.present_students)
          IN  today_response' =
                 IF ~validate_class_selection(b, s)
                 THEN [NoResponse EXCEPT !.status = 400]
                 ELSE IF total_students = 0
                 THEN [NoResponse EXCEPT !.status = 404]
                 ELSE IF attendance_csv.exists /\ ~readable
                 THEN [NoResponse EXCEPT !.status = 500]
                 ELSE [status |-> 200, class |-> <<b, s>>, date |-> Today,
                       total |-> total_students, present |-> present_count,
                       absent |-> total_students - present_count,
                       percentage |-> percentage_of(present_count, total_students),
                       records |-> read.records]
    /\ UNCHANGED <<envVars, attendance_csv, pc, rosterVars, sessVars, frame_count,
                   facesLeft, faceVars, summary, exitReason, histVars, apiVars>>

NextToday == get_today_attendance

\* an idle server with some student database and some log
InitToday ==
    /\ student_db \in Databases
    /\ dataset = SortedNames(FolderNames)
    /\ trainerExists = TRUE
    /\ trainerReadable = TRUE
    /\ cascadeOK = TRUE
    /\ attendance_csv \in TodayLogs
    /\ frame_ms = FullSpeedMs
    /\ ScriptIdle

SpecToday == InitToday /\ [][NextToday]_vars

(* ----------------------------- enrolment ------------------------------ *)
\* Roll numbers are typed in, so in the enrolment operations a roll number is
\* a sequence of characters, as a name is.
MaxStudents == 2
MaxBatch == 2

NAME_MIN_LENGTH == 2
NAME_MAX_LENGTH == 50
ROLL_NUMBER_MIN_LENGTH == 5
ROLL_NUMBER_MAX_LENGTH == 20
MIN_IMAGES == 30

\* str.upper(), character by character
UpperChar(ch) ==
    CASE ch = "a" -> "A"
      [] ch = "b" -> "B"
      [] ch = "c" -> "C"
      [] ch = "e" -> "E"
      [] ch = "s" -> "S"
      [] OTHER -> ch

UpperStr(s) == [i \in 1..Len(s) |-> UpperChar(s[i])]

IsUpperLetter(ch) == Ord(ch) \in 65..90
IsLowerLetter(ch) == Ord(ch) \in 97..122
IsDigit(ch) == Ord(ch) \in 48..57

\* str.strip()
RECURSIVE StripLeft(_)
StripLeft(s) == IF s # <<>> /\ Head(s) = " " THEN StripLeft(Tail(s)) ELSE s

RECURSIVE StripRight(_)
StripRight(s) ==
    IF s # <<>> /\ s[Len(s)] = " " THEN StripRight(SubSeq(s, 1, Len(s) - 1)) ELSE s

Strip(s) == StripRight(StripLeft(s))

\* the decimal digits of a small number, and str(n).zfill(3)
Digit(n) ==
    CASE n = 0 -> "0"
      [] n = 1 -> "1"
      [] n = 2 -> "2"
      [] n = 3 -> "3"
      [] OTHER -> "4"

Suffixed(s, n) == s \o <<"_", Digit(n)>>

\* what an operator can type
RollUpper == <<"C", "S", "E", "B", "1">>
RollLower == <<"c", "s", "e", "b", "1">>
RollOther == <<"C", "S", "E", "B", "2">>
EnrolNames == {NameAb, Name_ab}
EnrolRolls == {RollUpper, RollLower, RollOther}
EnrolClasses == {<<"CSE", "B">>, <<"XX", "B">>}

\* the keys of the database, and db[key] = info keeping the place of a key
KeysOf(db) == {db[i].sid : i \in DOMAIN db}

DbPut(db, key, info) ==
    IF key \in KeysOf(db)
    THEN [i \in DOMAIN db |-> IF db[i].sid = key THEN [sid |-> key, info |-> info]
                                ELSE db[i]]
    ELSE Append(db, [sid |-> key, info |-> info])

\* the first free key base_1, base_2, ... (the while loops of validators.py
\* 186-188 and csv_import.py 117-119)
RECURSIVE FreeSuffix(_, _, _)
FreeSuffix(db, base, counter) ==
    IF Suffixed(base, counter) \in KeysOf(db)
    THEN FreeSuffix(db, base, counter + 1)
    ELSE Suffixed(base, counter)

\* StudentValidator.validate_name, validators.py 31-55: the name, or <<>> when
\* it is refused
validate_name(name) ==
    LET n == Strip(name)
    IN  IF /\ n # <<>>
           /\ Len(n) >= NAME_MIN_LENGTH
           /\ Len(n) <= NAME_MAX_LENGTH
           /\ \A i \in DOMAIN n :
                 \/ IsUpperLetter(n[i]) \/ IsLowerLetter(n[i])
                 \/ n[i] \in {" ", ".", "-", "'"}
        THEN n ELSE <<>>

\* StudentValidator.validate_roll_number, validators.py 57-87
validate_roll_number(roll_no) ==
    LET r == UpperStr(Strip(roll_no))
    IN  IF /\ Strip(roll_no) # <<>>
           /\ Len(r) >= ROLL_NUMBER_MIN_LENGTH
           /\ Len(r) <= ROLL_NUMBER_MAX_LENGTH
           /\ \A i \in DOMAIN r : IsUpperLetter(r[i]) \/ IsDigit(r[i])
        THEN r ELSE <<>>

\* StudentValidator.check_duplicate_roll_number, validators.py 100-130
check_duplicate_roll_number(db, roll_no) ==
    \E i \in DOMAIN db : UpperStr(db[i].info.rollNo) = UpperStr(roll_no)

\* StudentValidator.check_duplicate_name, validators.py 132-169
check_duplicate_name(db, name, b, s) ==
    \E i \in DOMAIN db :
        /\ Strip(Lower(db[i].info.name)) = Strip(Lower(name))
        /\ Upper(db[i].info.branch) = Upper(b)
        /\ Upper(db[i].info.section) = Upper(s)

\* StudentValidator.generate_unique_student_id, validators.py 171-190
generate_unique_student_id(db, name) ==
    LET base_id == SelectSeq(ReplaceSpace(Strip(Lower(name))),
                             LAMBDA ch : IsLowerLetter(ch) \/ IsDigit(ch) \/ ch = "_")
    IN  IF base_id \notin KeysOf(db) THEN base_id ELSE FreeSuffix(db, base_id, 1)

\* everything but the student database and the dataset directory
scriptVars == <<trainerExists, trainerReadable, cascadeOK, frame_ms, attendance_csv,
                io_fault,
                pc, rosterVars, sessVars, frame_count, facesLeft, faceVars, summary,
                exitReason, histVars, apiVars, today_response>>

\* validate_and_add_student, validators.py 273-314, with
\* StudentValidator.validate_student_data, 192-235
validate_and_add_student ==
    /\ Len(student_db) < MaxStudents
    /\ \E name \in EnrolNames, roll_no \in EnrolRolls, c \in EnrolClasses,
          proceed \in BOOLEAN :
          LET n == validate_name(name)
              r == validate_roll_number(roll_no)
          IN  IF \/ n = <<>>
                 \/ r = <<>>
                 \/ ~validate_branch_section(c[1], c[2])
                 \/ check_duplicate_roll_number(student_db, r)
                 \/ (check_duplicate_name(student_db, n, c[1], c[2]) /\ ~proceed)
              THEN UNCHANGED student_db
              ELSE student_db' =
                      DbPut(student_db, generate_unique_student_id(student_db, n),
                            [name |-> n, rollNo |-> r,
                             branch |-> c[1], section |-> c[2]])
    /\ UNCHANGED <<dataset, scriptVars>>

\* the rows a CSV file can hold, and the files
CsvRows == [name : EnrolNames, roll : EnrolRolls, class : EnrolClasses]
CsvFiles == UNION {[1..n -> CsvRows] : n \in 1..MaxBatch}

\* csv_import.py 74-134: the loop over the rows of the file
RECURSIVE ImportRows(_, _)
ImportRows(db, rows) ==
    IF rows = <<>> THEN db
    ELSE LET row == Head(rows)
             name == Strip(row.name)
             roll_no == Strip(row.roll)
             b == Upper(row.class[1])
             sec == Upper(row.class[2])
             base == ReplaceSpace(Lower(name))
             student_id == IF base \in KeysOf(db) THEN FreeSuffix(db, base, 1) ELSE base
         IN  IF \/ name = <<>> \/ roll_no = <<>> \/ b = "" \/ sec = ""
                \/ b \notin ALLOWED_BRANCHES
                \/ sec \notin ALLOWED_SECTIONS
                \/ \E i \in DOMAIN db : db[i].info.rollNo = roll_no
             THEN ImportRows(db, Tail(rows))
             ELSE ImportRows(DbPut(db, student_id,
                                   [name |-> name, rollNo |-> roll_no,
                                    branch |-> b, section |-> sec]),
                             Tail(rows))

\* import_students_from_csv, csv_import.py 32-167
import_students_from_csv ==
    /\ Len(student_db) < MaxStudents
    /\ \E fileOK \in BOOLEAN, file \in CsvFiles :
          student_db' = IF fileOK THEN ImportRows(student_db, file) ELSE student_db
    /\ UNCHANGED <<dataset, scriptVars>>

\* get_next_roll_number, bulk_capture.py 19-22, for the classes of the menu
get_next_roll_number(b, sec, existing_count) ==
    (IF sec = "A" THEN <<"C", "S", "E", "A">> ELSE <<"C", "S", "E", "B">>)
        \o <<"0", "0", Digit(existing_count + 1)>>

\* what the operator enters for one student of a bulk capture: the name, a
\* roll number or nothing, and how many images were saved
BulkInputs == [name : EnrolNames, roll : EnrolRolls \cup {<<>>},
               saved : {MIN_IMAGES - 1, MIN_IMAGES}]
BulkSessions == UNION {[1..n -> BulkInputs] : n \in 1..MaxBatch}

\* bulk_capture.py 117-246: the loop over the students, on the database and
\* the dataset directory
RECURSIVE BulkLoop(_, _, _, _, _, _, _)
BulkLoop(db, folders, inputs, student_num, students_captured, b, sec) ==
    IF inputs = <<>> THEN [db |-> db, folders |-> folders]
    ELSE LET in == Head(inputs)
             name == Strip(in.name)
             typed == Strip(in.roll)
             roll0 == IF typed = <<>>
                      THEN get_next_roll_number(b, sec, students_captured)
                      ELSE typed
             base == ReplaceSpace(Lower(name))
             student_id == IF base \in KeysOf(db) THEN Suffixed(base, student_num)
                           ELSE base
             roll_no == IF \E i \in DOMAIN db :
                              db[i].info.rollNo = roll0 /\ db[i].sid # student_id
                        THEN Suffixed(roll0, student_num)
                        ELSE roll0
             made == IF name \in Range(folders) THEN folders ELSE Append(folders, name)
         IN  IF in.saved >= MIN_IMAGES
             THEN BulkLoop(DbPut(db, student_id,
                                 [name |-> name, rollNo |-> roll_no,
                                  branch |-> b, section |-> sec]),
                           made, Tail(inputs), student_num + 1,
                           students_captured + 1, b, sec)
             ELSE BulkLoop(db, made, Tail(inputs), student_num + 1,
                           students_captured, b, sec)

\* bulk_capture_class, bulk_capture.py 24-268
bulk_capture_class ==
    /\ Len(student_db) < MaxStudents
    /\ \E sec \in ALLOWED_SECTIONS, continue \in BOOLEAN, camOK \in BOOLEAN,
          inputs \in BulkSessions :
          LET b == "CSE"
              existing == Cardinality({i \in DOMAIN student_db :
                                          /\ student_db[i].info.branch = b
                                          /\ student_db[i].info.section = sec})
              out == BulkLoop(student_db, dataset, inputs, existing + 1, existing,
                              b, sec)
          IN  IF (existing > 0 /\ ~continue) \/ ~camOK
              THEN UNCHANGED <<student_db, dataset>>
              ELSE student_db' = out.db /\ dataset' = out.folders
    /\ UNCHANGED scriptVars

NextEnrol ==
    \/ validate_and_add_student
    \/ import_students_from_csv
    \/ bulk_capture_class

\* a fresh installation: no student, no dataset folder, no log
InitEnrol ==
    /\ student_db = <<>>
    /\ dataset = <<>>
    /\ trainerExists = FALSE
    /\ trainerReadable = FALSE
    /\ cascadeOK = TRUE
    /\ attendance_csv = NoFile
    /\ frame_ms = FullSpeedMs
    /\ ScriptIdle

SpecEnrol == InitEnrol /\ [][NextEnrol]_vars

(* ----------------------------- a slow camera --------------------------- *)
\* a trained deployment whose camera gives one frame a second
InitSlow ==
    /\ student_db = FullDb
    /\ dataset = SortedNames(FolderNames)
    /\ trainerExists = TRUE
    /\ trainerReadable = TRUE
    /\ cascadeOK = TRUE
    /\ attendance_csv = NoFile
    /\ frame_ms = SlowFrameMs
    /\ ScriptIdle

SpecSlow == InitSlow /\ [][Next]_vars

(* ------------------------- a log that can fail ------------------------- *)
\* how an append to attendance.csv can go: it works, open() raises,
\* writerow raises, or the buffered rows cannot be written at close
Faults == {"none", "open", "row", "close"}

\* the file system changes under the running script
LogFault ==
    /\ pc \in {"read", "detect", "faces", "show", "flush", "finally"}
    /\ io_fault' \in Faults \ {io_fault}
    /\ UNCHANGED <<today_response, student_db, dataset, trainerExists, frame_ms,
                   trainerReadable, cascadeOK, attendance_csv, pc, rosterVars, sessVars, frame_count, facesLeft,
                   faceVars, summary, exitReason, histVars, apiVars>>

NextFault ==
    \/ Launch
    \/ Session
    \/ LogFault

\* a trained deployment with the full database and every dataset folder
InitFault ==
    /\ Init
    /\ student_db = FullDb
    /\ Len(dataset) = Cardinality(FolderNames)
    /\ attendance_csv = NoFile
    /\ trainerExists /\ trainerReadable /\ cascadeOK

SpecFault == InitFault /\ [][NextFault]_vars

(* =============================== claims =============================== *)
\* the rows this session appended to attendance.csv
SessionRows == SubSeq(attendance_csv.rows, logStart + 1, Len(attendance_csv.rows))

\* every AttendanceEvent of the session: flushed or still queued
AllEvents == SessionRows \o attendance_queue

\* the record a predicted label is bound to, read off the roster
BoundBranch(label) ==
    IF label \in DOMAIN label_map /\ label_map[label] \in DOMAIN name_to_info
    THEN name_to_info[label_map[label]].branch ELSE "UNKNOWN"

BoundSection(label) ==
    IF label \in DOMAIN label_map /\ label_map[label] \in DOMAIN name_to_info
    THEN name_to_info[label_map[label]].section ELSE "UNKNOWN"

Trusted(d) == d.ok /\ d.confidence < RECOGNITION_CONFIDENCE_THRESHOLD

\* C1: within one session no identity label has more than one AttendanceEvent,
\* counting the events still queued and the events already flushed to the log.
C1_OneEventPerLabel ==
    /\ \A i, j \in DOMAIN AllEvents : i # j => AllEvents[i][1] # AllEvents[j][1]
    /\ \A i, j \in DOMAIN enqueued : i # j => enqueued[i][1] # enqueued[j][1]

\* a label whose event is already in the log is detected again, in its class
C1_Witness ==
    /\ pc = "show"
    /\ Trusted(detection)
    /\ result.status = "correct_class"
    /\ attendance_queue = <<>>
    /\ \E i \in DOMAIN SessionRows : SessionRows[i][1] = result.name

\* C2: within one session no student (roll number of a roster record) has more
\* than one AttendanceEvent, also when two folders resolve to the same record.
C2_OneEventPerStudent ==
    \A i, j \in DOMAIN AllEvents :
        (i # j /\ AllEvents[i][2] # "N/A") => AllEvents[i][2] # AllEvents[j][2]

\* C3: a trusted detection whose record is of another branch or section is
\* classified wrong_class and leaves the marked set, the cooldown map and the
\* queue as they were.
C3_WrongClassNoEvent ==
    [][(/\ pc = "faces"
        /\ Trusted(detection')
        /\ (BoundBranch(detection'.label) # branch \/
            BoundSection(detection'.label) # section))
       => (/\ result'.status = "wrong_class"
           /\ marked_names' = marked_names
           /\ recognition_cooldown' = recognition_cooldown
           /\ attendance_queue' = attendance_queue
           /\ enqueued' = enqueued)]_vars

\* a student of the other section was seen while somebody of the class is marked
C3_Witness ==
    /\ Trusted(detection)
    /\ result.status = "wrong_class"
    /\ BoundBranch(detection.label) = branch
    /\ BoundSection(detection.label) # section
    /\ marked_names # {}
    /\ result.name \notin marked_names

\* C4: a detection whose distance is not strictly below the threshold is Unknown
\* whatever its label and changes no session state.
C4_UntrustedIsUnknown ==
    [][(/\ pc = "faces"
        /\ detection'.ok
        /\ detection'.confidence >= RECOGNITION_CONFIDENCE_THRESHOLD)
       => (/\ result'.status = "unknown"
           /\ result'.name = UnknownName
           /\ marked_names' = marked_names
           /\ recognition_cooldown' = recognition_cooldown
           /\ attendance_queue' = attendance_queue
           /\ enqueued' = enqueued)]_vars

\* a student of the session's class seen at exactly the threshold
C4_Witness ==
    /\ detection.ok
    /\ detection.confidence = RECOGNITION_CONFIDENCE_THRESHOLD
    /\ BoundBranch(detection.label) = branch
    /\ BoundSection(detection.label) = section
    /\ result.status = "unknown"
    /\ marked_names = {}

\* a step that calls batch_write_attendance or skips it on an empty queue:
\* the periodic flush of line 327 and the final flush of line 338
FlushStep ==
    \/ pc = "finally" /\ pc' = "done"
    \/ pc = "flush" /\ pc' = "read" /\ frame_count % BATCH_WRITE_INTERVAL = 0

\* C5: a flush on a non-empty queue appends every queued event to the log once,
\* in enqueue order, and empties the queue; over the session the log rows are
\* the enqueued events in order, none twice, none skipped.
C5_FlushFifo ==
    /\ [][(FlushStep /\ attendance_queue # <<>>)
          => (/\ attendance_csv'.rows = attendance_csv.rows \o attendance_queue
              /\ attendance_queue' = <<>>)]_vars
    /\ [](SessionRows \o attendance_queue = enqueued)

\* two flushes of one session, each with an event
C5_Witness ==
    /\ pc = "done"
    /\ opens = 2
    /\ Len(SessionRows) = 2
    /\ attendance_queue = <<>>

\* C6: a flush on an empty queue neither opens nor writes the log and leaves the
\* queue empty, for the periodic and for the final flush.
C6_EmptyFlushNoop ==
    /\ [][(FlushStep /\ attendance_queue = <<>>)
          => (/\ attendance_csv' = attendance_csv
              /\ opens' = opens
              /\ attendance_queue' = <<>>)]_vars
    /\ [](LET w == batch_write_attendance(<<>>, attendance_csv, io_fault)
          IN  w.file = attendance_csv /\ w.opened = 0 /\ w.queue = <<>>)

\* a session that passed the periodic flush and the final flush with nothing queued
C6_Witness ==
    /\ pc = "done"
    /\ frame_count > BATCH_WRITE_INTERVAL
    /\ enqueued = <<>>
    /\ opens = 0
    /\ attendance_csv.rows = <<>>

\* C7: at session end the labels with an event are exactly the labels seen with
\* a trusted distance and a record of the session's class, and the summary's
\* present count is their number.
C7_EventsAreAccepted ==
    pc = "done" =>
        /\ {AllEvents[i][1] : i \in DOMAIN AllEvents} = accepted
        /\ Len(AllEvents) = Cardinality(accepted)
        /\ summary.present = Cardinality(accepted)

\* a session over a roster of several folders that ends with one student present
C7_Witness ==
    /\ pc = "done"
    /\ exitReason = "camera_read"
    /\ Len(dataset) >= 2
    /\ Cardinality(class_students) = 1
    /\ summary.present = 1
    /\ Len(SessionRows) = 1

C9_SampledFrames ==
    (pc = "done" /\ exitReason = "camera_read") =>
        /\ processed = {i \in 1..frame_count : i % process_every_n_frames = 0}
        /\ Cardinality(processed) = frame_count \div process_every_n_frames

\* five frames delivered, two of them sampled
C9_Witness ==
    /\ pc = "done"
    /\ exitReason = "camera_read"
    /\ frame_count = 5
    /\ Cardinality(processed) = 2

\* a folder name the student database has no key and no name for
NoEntry(name) ==
    \A i \in DOMAIN student_db :
        /\ student_db[i].sid # ReplaceSpace(Lower(name))
        /\ Lower(student_db[i].info.name) # Lower(name)

Unbound(label) == label \notin DOMAIN label_map \/ NoEntry(label_map[label])

\* C10: every label the recognizer can return resolves to a record; a label
\* absent from label_map or a folder without a database entry resolves to
\* rollNo N/A, branch UNKNOWN, section UNKNOWN, and the loop goes on.
C10_LookupTotal ==
    /\ [](pc \in {"read", "detect", "faces", "show", "flush"} =>
            /\ \A n \in Range(label_map) : n \in DOMAIN name_to_info
            /\ \A label \in Labels :
                  Unbound(label) =>
                      /\ lookup(label).roll_no = "N/A"
                      /\ lookup(label).student_branch = "UNKNOWN"
                      /\ lookup(label).student_section = "UNKNOWN")
    /\ [][(pc = "faces" /\ Trusted(detection') /\ Unbound(detection'.label))
          => (pc' \in {"faces", "show"} /\ result'.roll_no = "N/A")]_vars

\* a folder without a database entry was seen and the loop goes on
C10_Witness ==
    /\ pc = "show"
    /\ Trusted(detection)
    /\ detection.label \in DOMAIN label_map
    /\ NoEntry(label_map[detection.label])
    /\ result.roll_no = "N/A"
    /\ result.name = label_map[detection.label]

\* the database entries whose key is the folder's normalised name, and the
\* entries whose name is the folder's name up to case
KeyMatches(name) ==
    {i \in DOMAIN student_db : student_db[i].sid = ReplaceSpace(Lower(name))}

NameMatches(name) ==
    {i \in DOMAIN student_db : Lower(student_db[i].info.name) = Lower(name)}

\* C11: every folder of the roster is bound to the database entry under its
\* key if there is one, else to an entry whose name equals the folder's name
\* case-insensitively, else to the placeholder; the key match wins over any
\* name match.
C11_ResolutionOrder ==
    pc \in {"read", "detect", "faces", "show", "flush", "finally", "done"} =>
        \A n \in Range(label_map) :
            /\ n \in DOMAIN name_to_info
            /\ KeyMatches(n) # {} =>
                  \E i \in KeyMatches(n) : name_to_info[n] = student_db[i].info
            /\ (KeyMatches(n) = {} /\ NameMatches(n) # {}) =>
                  \E i \in NameMatches(n) : name_to_info[n] = student_db[i].info
            /\ (KeyMatches(n) = {} /\ NameMatches(n) = {}) =>
                  name_to_info[n] = Placeholder

\* a roster with a folder whose key entry is not the entry a search by name
\* finds first, and a folder that is found by name only
C11_Witness ==
    /\ pc = "read"
    /\ \E n \in Range(label_map) :
          /\ KeyMatches(n) # {}
          /\ \E i \in NameMatches(n) :
                /\ i < SetMin(KeyMatches(n))
                /\ student_db[i].info # name_to_info[n]
    /\ \E n \in Range(label_map) : KeyMatches(n) = {} /\ NameMatches(n) # {}


\* C12: a session whose class has no member in the roster never runs: the
\* script ends before its loop, samples no frame and enqueues no event.
C12_EmptyClassNeverRuns ==
    (pc \notin {"idle", "start"} /\ class_students = {}) =>
        /\ pc = "exit"
        /\ processed = {}
        /\ enqueued = <<>>

\* C13: when trainer.yml is missing or unreadable, or the cascade does not
\* load, the script ends before its loop: no frame is read or sampled, no
\* event is enqueued, and attendance.csv is neither created nor written.
C13_NoEngineNoSession ==
    /\ [](~(trainerExists /\ trainerReadable /\ cascadeOK) =>
            /\ pc \in {"idle", "start", "exit"}
            /\ frame_count = 0
            /\ processed = {}
            /\ enqueued = <<>>
            /\ opens = 0)
    /\ [][~(trainerExists /\ trainerReadable /\ cascadeOK) =>
            attendance_csv' = attendance_csv]_vars

\* the script was started with a trained model but without a cascade and has
\* ended, with no attendance.csv created
C13_Witness ==
    /\ pc = "exit"
    /\ exitReason = "engine"
    /\ trainerExists
    /\ trainerReadable
    /\ ~cascadeOK
    /\ ~attendance_csv.exists

\* the positions inside the try block of the loop
InLoop == pc \in {"read", "detect", "faces", "show", "flush"}

\* C14: the loop is left only into the finally block, whatever ends it (quit
\* key, failed camera read, KeyboardInterrupt, any other exception); the
\* finally block writes the whole queue, so that with a writable log the
\* ended session has an empty queue and every enqueued event in the log.
C14_FinalFlushOnExit ==
    /\ [][(InLoop /\ ~InLoop') =>
            (pc' = "finally" /\ exitReason' \in {"quit", "camera_read", "interrupt"})]_vars
    /\ [][pc = "finally" =>
            (/\ pc' = "done"
             /\ attendance_queue' = <<>>
             /\ attendance_csv'.rows = attendance_csv.rows \o attendance_queue)]_vars
    /\ []((exitReason \in {"quit", "camera_read", "interrupt"} /\ ~InLoop) =>
            (pc \in {"finally", "done"} /\
             (pc = "done" => (attendance_queue = <<>> /\ SessionRows = enqueued))))

\* an exception ended the loop before any periodic flush, with two events
\* queued, and the finally block wrote them
C14_Witness ==
    /\ pc = "done"
    /\ exitReason = "interrupt"
    /\ frame_count < BATCH_WRITE_INTERVAL
    /\ Len(enqueued) = 2
    /\ SessionRows = enqueued
    /\ opens = 1

\* the sampling ticks since attendance_queue became non-empty
TicksQueued ==
    Cardinality({f \in (queuedSince + 1)..frame_count :
                    f % process_every_n_frames = 0})

C16_NoEventLostOnFailure ==
    LET kept == SessionRows \o attendance_queue
    IN  /\ Len(kept) = Len(enqueued)
        /\ \A i \in DOMAIN enqueued : kept[i] = enqueued[i]

\* C17: when recognizer.predict raises on a face, that face alone is dropped:
\* the step changes no session state and no result, and the loop goes on to
\* the next face of the frame, or to the display when it was the last one.
C17_PredictErrorDropsOneFace ==
    [][(pc = "faces" /\ ~detection'.ok /\ exitReason' = exitReason)
       => (/\ marked_names' = marked_names
           /\ recognition_cooldown' = recognition_cooldown
           /\ attendance_queue' = attendance_queue
           /\ enqueued' = enqueued
           /\ result' = result
           /\ facesLeft' = facesLeft - 1
           /\ pc' = IF facesLeft > 1 THEN "faces" ELSE "show")]_vars

\* one frame with two faces: the first was marked, the recognizer failed on
\* the second, and the event of the first is queued
C17_Witness ==
    /\ pc = "show"
    /\ detection = NoDetection
    /\ result.status = "correct_class"
    /\ frame_count = process_every_n_frames
    /\ Len(attendance_queue) = 1
    /\ attendance_queue[1][1] = result.name

\* C18: a failed cam.read ends the loop at once and for good: from then on no
\* frame is read, sampled or classified, the only step left is the finally
\* block with its flush, and the ended session has its summary.
C18_ReadFailureIsFatal ==
    /\ [](exitReason = "camera_read" => pc \in {"finally", "done"})
    /\ [][exitReason = "camera_read" =>
            (/\ frame_count' = frame_count
             /\ processed' = processed
             /\ enqueued' = enqueued
             /\ marked_names' = marked_names
             /\ pc' = "done"
             /\ attendance_queue' = <<>>
             /\ summary'.class = <<branch, section>>
             /\ summary'.present = Cardinality(marked_names)
             /\ Len(summary'.students) = Cardinality(marked_names))]_vars
    /\ []((pc = "done" /\ exitReason = "camera_read") =>
            (SessionRows = enqueued /\ summary # NoSummary))

\* the camera failed with an event queued; the event is in the log and in the
\* summary of the ended session
C18_Witness ==
    /\ pc = "done"
    /\ exitReason = "camera_read"
    /\ frame_count = process_every_n_frames + 1
    /\ Len(SessionRows) = 1
    /\ summary.present = 1
    /\ opens = 1

\* C19: a stop request made while the loop runs is seen by the script within
\* one tick: after the request at most one further frame is sampled.
C19_StopSeenWithinOneTick == ticksAfterStop <= 1

\* C20: the summary of an ended session is made from marked_names: the
\* present count is the size of the marked set and the number of events the
\* session created, and the list has each marked name once, in ascending
\* order, with the roll number of its event, whether or not a flush failed.
C20_SummaryFromMarkedSet ==
    pc = "done" =>
        /\ summary.class = <<branch, section>>
        /\ summary.present = Cardinality(marked_names)
        /\ summary.present = Len(enqueued)
        /\ Len(summary.students) = Cardinality(marked_names)
        /\ {summary.students[i][1] : i \in DOMAIN summary.students} = marked_names
        /\ \A i, j \in DOMAIN summary.students :
              i < j => StrLess(summary.students[i][1], summary.students[j][1])
        /\ \A i \in DOMAIN summary.students :
              \E k \in DOMAIN enqueued :
                  /\ enqueued[k][1] = summary.students[i][1]
                  /\ enqueued[k][2] = summary.students[i][2]

\* two students were marked and the log took neither event
C20_Witness ==
    /\ pc = "done"
    /\ io_fault # "none"
    /\ summary.present = 2
    /\ Len(summary.students) = 2
    /\ SessionRows = <<>>
    /\ attendance_queue = <<>>

\* s is a prefix of t
IsPrefix(s, t) == Len(s) <= Len(t) /\ SubSeq(t, 1, Len(s)) = s

\* C21: attendance.csv, once it exists, begins with the header Name, RollNo,
\* Branch, Section, Date, Time; no step removes the file, rewrites its header
\* or changes a row it has: the rows before a step are a prefix of the rows
\* after it, and the header is written only by the step that creates the file.
C21_LogAppendOnly ==
    /\ [](attendance_csv.exists => attendance_csv.header = CsvHeader)
    /\ [](~attendance_csv.exists => attendance_csv.rows = <<>>)
    /\ [][/\ IsPrefix(attendance_csv.rows, attendance_csv'.rows)
          /\ attendance_csv.exists =>
                (attendance_csv'.exists /\ attendance_csv'.header = attendance_csv.header)
          /\ (~attendance_csv.exists /\ attendance_csv'.exists) =>
                (pc = "start" /\ attendance_csv'.rows = <<>>)]_vars

\* a session that found a log with a row of an earlier session and added one
C21_Witness ==
    /\ pc = "done"
    /\ logStart = 1
    /\ attendance_csv.header = CsvHeader
    /\ Len(attendance_csv.rows) = 2
    /\ attendance_csv.rows[1] = OldRow
    /\ attendance_csv.rows[2] = enqueued[1]

\* the recognition script is a live process: launched and not yet ended
ScriptAlive == pc \in {"start", "read", "detect", "faces", "show", "flush", "finally"}

\* C22: the API launches a recognition process only when none it launched
\* before is still alive, so that attendance.csv has one writer at a time.
C22_SingleWriter ==
    [][spawned' > spawned => ~ScriptAlive]_vars

\* C23: after any enrolment operations no two records of the student
\* database have the same roll number, letter case aside.
C23_RollNumbersUnique ==
    \A i, j \in DOMAIN student_db :
        i # j => UpperStr(student_db[i].info.rollNo) # UpperStr(student_db[j].info.rollNo)

\* the rows of the log the last response of today's attendance is about
TodayMatching ==
    {k \in DOMAIN attendance_csv.rows :
        /\ StripField(attendance_csv.rows[k][5]) = today_response.date
        /\ StripField(attendance_csv.rows[k][3]) = today_response.class[1]
        /\ StripField(attendance_csv.rows[k][4]) = today_response.class[2]}

\* C24: a successful response of today's attendance lists every roll number
\* at most once, and present is the number of distinct roll numbers among the
\* rows of the log for the requested class and date.
C24_ReaderDeduplicates ==
    today_response.status = 200 =>
        /\ \A i, j \in DOMAIN today_response.records :
              i # j => today_response.records[i].rollNo # today_response.records[j].rollNo
        /\ Len(today_response.records) = today_response.present
        /\ today_response.present =
              Cardinality({StripField(attendance_csv.rows[k][2]) : k \in TodayMatching})

\* the student CSEB001 has three rows of the day and is counted once
C24_Witness ==
    /\ today_response.status = 200
    /\ Cardinality(TodayMatching) = 3
    /\ \A k \in TodayMatching : StripField(attendance_csv.rows[k][2]) = "CSEB001"
    /\ \E k \in TodayMatching : attendance_csv.rows[k][2] = PaddedRoll
    /\ today_response.present = 1

\* C30: in a successful response of today's attendance present is at most
\* total, absent is not negative and the percentage is at most 100.
C30_CountsWithinTotal ==
    today_response.status = 200 =>
        /\ today_response.present <= today_response.total
        /\ today_response.absent >= 0
        /\ today_response.percentage <= 100 * 100

C26_SameLabelMap == InLoop => label_map = train_label_map(dataset)

\* C27: with a writable log every marked name has exactly one event, either
\* in the queue or among the rows the session appended, every event of the
\* session is the event of a marked name, and the marked set never shrinks.
C27_Conservation ==
    /\ [](\A n \in marked_names :
             Cardinality({k \in DOMAIN AllEvents : AllEvents[k][1] = n}) = 1)
    /\ []((InLoop \/ pc \in {"finally", "done"}) =>
             \A k \in DOMAIN AllEvents : AllEvents[k][1] \in marked_names)
    /\ [][marked_names \subseteq marked_names']_vars

\* two names are marked: the event of one is in the log, the other is queued
C27_Witness ==
    /\ InLoop
    /\ Cardinality(marked_names) = 2
    /\ Len(SessionRows) = 1
    /\ Len(attendance_queue) = 1
    /\ SessionRows[1][1] # attendance_queue[1][1]

\* C28: while the flag attendance_running is set, the recognition process the
\* API started is alive (stated for the sessions with one process started).
C28_RunningMeansAlive == (attendance_running /\ spawned = 1) => ScriptAlive

\* C29: no event is queued, and no row reaches the log, for an identity bound
\* to the placeholder record, whose roll number is N/A.
C29_PlaceholderNeverMarked ==
    /\ \A k \in DOMAIN enqueued : enqueued[k][2] # "N/A"
    /\ \A k \in DOMAIN SessionRows : SessionRows[k][2] # "N/A"

====
